---- MODULE Spec2Model ----
(***************************************************************************)
(* FinAI Mitra: the document pipeline of main() (src/main_app.py), the     *)
(* retrying model gateway call_gemini_api and the classifier               *)
(* is_document_financial (src/utils/llm_processor.py), and the text        *)
(* extractor get_text_from_input_source (src/utils/document_parser.py).    *)
(*                                                                         *)
(* A text is a sequence of one-character strings.  A fixed user-facing     *)
(* message is a one-element sequence holding the whole message.            *)
(* One script run of main() is a walk of pc from "idle" back to "idle";    *)
(* every external call (storage, PDF parse, model) is one step whose       *)
(* outcome is chosen by the environment.                                   *)
(***************************************************************************)
EXTENDS Naturals, Sequences, FiniteSets, TLC

\* ------------------------------------------------------------------ bounds

\* longest document text (pasted, or parsed from a PDF) the model draws
MaxDocLen == 2

\* ------------------------------------------------------- program constants

\* stop_after_attempt(3)
MaxAttempts == 3

\* text_snippet = document_text[:5000]
SnippetLen == 5000

RETRY_EXCEPTIONS ==
    {"ResourceExhausted", "InternalServerError", "ServiceUnavailable", "DeadlineExceeded"}

ActionNames == {"Summarize", "Simplify"}

SUPPORTED_FILE_TYPES ==
    {<<"p", "d", "f">>, <<"p", "n", "g">>, <<"j", "p", "g">>, <<"j", "p", "e", "g">>}

ImageTypes == {<<"p", "n", "g">>, <<"j", "p", "g">>, <<"j", "p", "e", "g">>}

\* ------------------------------------------------------------------- texts

Empty == <<>>

Whitespace == {" ", "\n", "\t"}

RECURSIVE LStrip(_)
LStrip(s) ==
    IF s # <<>> /\ Head(s) \in Whitespace THEN LStrip(Tail(s)) ELSE s

RECURSIVE RStrip(_)
RStrip(s) ==
    IF s # <<>> /\ s[Len(s)] \in Whitespace THEN RStrip(SubSeq(s, 1, Len(s) - 1)) ELSE s

\* str.strip()
Strip(s) == RStrip(LStrip(s))

UpperChar(c) ==
    CASE c = "a" -> "A" [] c = "d" -> "D" [] c = "e" -> "E" [] c = "i" -> "I"
      [] c = "k" -> "K" [] c = "l" -> "L" [] c = "m" -> "M" [] c = "n" -> "N"
      [] c = "o" -> "O" [] c = "r" -> "R" [] c = "s" -> "S" [] c = "t" -> "T"
      [] c = "v" -> "V" [] c = "y" -> "Y" [] c = "b" -> "B" [] c = "h" -> "H"
      [] c = "j" -> "J" [] c = "p" -> "P" [] c = "g" -> "G" [] c = "f" -> "F"
      [] OTHER -> c

LowerChar(c) ==
    CASE c = "A" -> "a" [] c = "D" -> "d" [] c = "E" -> "e" [] c = "I" -> "i"
      [] c = "K" -> "k" [] c = "L" -> "l" [] c = "M" -> "m" [] c = "N" -> "n"
      [] c = "O" -> "o" [] c = "R" -> "r" [] c = "S" -> "s" [] c = "T" -> "t"
      [] c = "V" -> "v" [] c = "Y" -> "y" [] c = "B" -> "b" [] c = "H" -> "h"
      [] c = "J" -> "j" [] c = "P" -> "p" [] c = "G" -> "g" [] c = "F" -> "f"
      [] OTHER -> c

\* str.upper(), str.lower()
Upper(s) == [i \in 1..Len(s) |-> UpperChar(s[i])]

Lower(s) == [i \in 1..Len(s) |-> LowerChar(s[i])]

\* needle in s
Contains(needle, s) ==
    \E i \in 0..(Len(s) - Len(needle)) :
        \A j \in 1..Len(needle) : s[i + j] = needle[j]

\* s[:n]
Prefix(s, n) == SubSeq(s, 1, IF Len(s) < n THEN Len(s) ELSE n)

\* str.capitalize()
Capitalize(s) == IF s = <<>> THEN s ELSE <<UpperChar(Head(s))>> \o Lower(Tail(s))

\* s ends with t
EndsWith(s, t) ==
    Len(t) <= Len(s) /\ SubSeq(s, Len(s) - Len(t) + 1, Len(s)) = t

\* bool(s) of a str
Truthy(s) == Len(s) > 0

RECURSIVE SeqsUpTo(_, _)
SeqsUpTo(S, n) ==
    IF n = 0 THEN {<<>>}
    ELSE LET shorter == SeqsUpTo(S, n - 1)
         IN  shorter \cup {Append(s, c) : s \in shorter, c \in S}

Count(x, s) == Cardinality({i \in 1..Len(s) : s[i] = x})

Has(x, s) == \E i \in 1..Len(s) : s[i] = x

\* ------------------------------------------------------ environment's data

DocChars == {" ", "d"}

\* the texts a user can paste and a PDF can hold
DocTexts == SeqsUpTo(DocChars, MaxDocLen)

\* the questions typed in the Q&A box ("" when the box is empty)
Questions == {Empty, <<"q">>}

\* the file presented by the uploader: its name, or None (here the empty name)
NoFile == <<>>

\* st.file_uploader(..., type=["pdf", "png", "jpg", "jpeg"])
UploaderTypes ==
    {<<"p", "d", "f">>, <<"p", "n", "g">>, <<"j", "p", "g">>, <<"j", "p", "e", "g">>}

\* the names of the files the user has: a.pdf, a.png, "a b.jpg", b.JPEG,
\* a.txt and doc (a name without extension)
FileNames ==
    {<<"a", ".", "p", "d", "f">>, <<"a", ".", "p", "n", "g">>,
     <<"a", " ", "b", ".", "j", "p", "g">>, <<"b", ".", "J", "P", "E", "G">>,
     <<"a", ".", "t", "x", "t">>, <<"d", "o", "c">>}

\* a text one character longer than the classifier's snippet
LongText == [i \in 1..(SnippetLen + 1) |-> IF i <= SnippetLen THEN "d" ELSE " "]

\* the characters of the texts handed to the prompt builders on their own
PromptChars == {"N", "O"}

PromptTexts == SeqsUpTo(PromptChars, MaxDocLen)

\* what the model can answer
Responses == {Empty, <<"O", "k">>, <<"Y", "E", "S">>, <<"e", "r", "r", "o", "r">>}

\* what the model can also answer to the classification prompt
ClassifierAnswers ==
    {<<"y", "e", "s">>, <<" ", "Y", "e", "s", "\n">>, <<"N", "O">>, <<"n", "o">>,
     <<"N", "O", " ", "y", "e", "s">>}

ResponsesTo(purpose) ==
    IF purpose = "classify" THEN Responses \cup ClassifierAnswers ELSE Responses

\* how a model call can fail: transient classes, a non-transient
\* GoogleAPICallError, and an exception that is no GoogleAPICallError
Failures ==
    {"ResourceExhausted", "InternalServerError", "ServiceUnavailable", "DeadlineExceeded",
     "InvalidArgument", "ValueError"}

GoogleAPICallErrors ==
    RETRY_EXCEPTIONS \cup {"InvalidArgument"}

\* ---------------------------------------------------------- fixed messages

NotFinancialMsg ==
    <<"**Document not recognized as financial.** FinAI Mitra is specifically designed to understand and process financial documents (e.g., loan agreements, insurance policies, tax documents). Please upload a relevant financial document.">>

InvalidResponseMsg ==
    <<"AI generated an invalid response. Please retry with a clearer document.">>

PleaseProcessMsg ==
    <<"Please process a document first to generate a summary/simplification for Q&A.">>

\* "Error: AI model not available."
ModelNotAvailableMsg ==
    <<"E", "r", "r", "o", "r", ":", " ", "A", "I", " ", "m", "o", "d", "e", "l", " ",
      "n", "o", "t", " ", "a", "v", "a", "i", "l", "a", "b", "l", "e", ".">>

\* f"Could not get an answer due to an AI error: {e}. Please try again."
CouldNotAnswerMsg(e) ==
    <<"Could not get an answer due to an AI error: ", e, ". Please try again.">>

\* the answer of the stub call_gemini_api that ui/components.py defines
SimulatedResponse ==
    <<"Simulated response for prompt: ">>

\* ----------------------------------------------------------------- prompts
\* A prompt is the sequence of its pieces: the fixed wording in strings, the
\* interpolated texts and language codes character by character.  The words
\* the code searches a prompt for (YES, NO) are spelled character by
\* character where a template holds them; no other wording of a template holds
\* them.  A template's language name is a piece of its own.

COUNTRIES == {"United States", "Germany", "India"}

\* the codes of COUNTRY_LANGUAGES and the tag main passes for Hindi
LanguageCodes ==
    {<<"h", "i">>, <<"e", "n">>, <<"d", "e">>, <<"t", "a">>, <<"h", "i", "-", "I", "N">>}

TTS_LANGUAGE_MAP(language) ==
    CASE language = "English" -> <<"e", "n", "-", "U", "S">>
      [] language = "German" -> <<"d", "e", "-", "D", "E">>
      [] language = "Hindi" -> <<"h", "i", "-", "I", "N">>
      [] language = "Tamil" -> <<"t", "a", "-", "I", "N">>

\* list(COUNTRY_LANGUAGES[country].keys())
COUNTRY_LANGUAGES(country) ==
    CASE country = "United States" -> <<"English">>
      [] country = "Germany" -> <<"German", "English">>
      [] country = "India" -> <<"Hindi", "English", "Tamil">>

MAX_SUMMARY_WORDS == 250

common_elements ==
    <<"Highlight key terms and conditions, like interest rates, repayment periods, and penalties. Keep the summary concise (maximum ",
      ToString(MAX_SUMMARY_WORDS), " words).">>

\* common_elements.replace('words', 'Wörter')
ReplaceWords(s) ==
    [i \in 1..Len(s) |-> IF s[i] = " words)." THEN " Wörter)." ELSE s[i]]

SummarizeIndiaHindi(text) ==
    <<"Summarize the following Indian financial document in simple, colloquial , as if explaining it to a common person in a village. ">>
        \o common_elements \o <<"\n Document:\n ">> \o text

SummarizeIndiaEnglish(text) ==
    <<"Summarize the following Indian financial document in simple, plain ", "English",
      ", suitable for someone with limited financial literacy. ">>
        \o common_elements \o <<"\n Document:\n ">> \o text

SummarizeGermanyGerman(text) ==
    <<"Fasse das folgende deutsche Finanzdokument prägnant und in klarem, leicht verständlichem ", "Deutsch",
      " zusammen. Betone die wichtigsten Bedingungen und Konditionen (z.B. Vertragsdauer, Kündigungsfristen, Kosten). Vermeide übermäßig komplizierte juristische Fachsprache, aber bleibe präzise. ">>
        \o ReplaceWords(common_elements) \o <<"\n Dokument:\n ">> \o text

SummarizeGermanyEnglish(text) ==
    <<"Summarize the following German financial document into clear, plain ", "English",
      ". Break down complex German terms and sentences. Ensure accuracy while making it accessible to a non-native speaker without a legal background. ">>
        \o common_elements \o <<"\n Document:\n ">> \o text

SummarizeFallback(text, code) ==
    <<"Summarize the following financial document in simple ">> \o Capitalize(code)
        \o <<" language. ">> \o common_elements \o <<" Document: ">> \o text

\* mutant: the German template is selected by the language's name
get_summarize_prompt_by_name(text, country, code) ==
    IF country = "India"
    THEN IF code = <<"h", "i">>
         THEN SummarizeIndiaHindi(text)
         ELSE SummarizeIndiaEnglish(text)
    ELSE IF country = "Germany"
         THEN IF code = <<"G", "e", "r", "m", "a", "n">>
              THEN SummarizeGermanyGerman(text)
              ELSE SummarizeGermanyEnglish(text)
         ELSE SummarizeFallback(text, code)

get_summarize_prompt(text, country, code) ==
    IF country = "India"
    THEN IF code = <<"h", "i">>
         THEN SummarizeIndiaHindi(text)
         ELSE SummarizeIndiaEnglish(text)
    ELSE IF country = "Germany"
         THEN IF code = <<"d", "e">>
              THEN SummarizeGermanyGerman(text)
              ELSE SummarizeGermanyEnglish(text)
         ELSE SummarizeFallback(text, code)

SimplifyIndiaHindi(text) ==
    <<"Simplify and rewrite the following Indian financial document text into very easy-to-understand, colloquial . Replace all jargon with simple words and rephrase complex sentences. Focus on clarity for someone with basic literacy.",
      "\n Document:\n ">> \o text

SimplifyIndiaEnglish(text) ==
    <<"Simplify and rewrite the following Indian financial document text into very easy-to-understand, plain ", "English",
      ". Replace all jargon with simple words and rephrase complex sentences. Focus on clarity for someone with basic literacy.",
      "\n Document:\n ">> \o text

SimplifyGermanyGerman(text) ==
    <<"Vereinfache und schreibe den folgenden Text aus einem deutschen Finanzdokument in klares, präzises und leicht verständliches ", "Deutsch",
      " um. Zerlege lange Sätze und komplizierte Fachbegriffe, ohne die Genauigkeit zu verlieren.",
      "\n Dokument:\n ">> \o text

SimplifyGermanyEnglish(text) ==
    <<"Simplify and rewrite the following German financial document text into clear, plain ", "English",
      ". Break down complex German sentences and compound words. Ensure that the meaning is accurately conveyed, making it accessible to a non-native speaker without a legal background.",
      "\n Document:\n ">> \o text

SimplifyFallback(text, code) ==
    <<"Simplify and rewrite the following financial document text into very easy-to-understand, plain ">>
        \o Capitalize(code) \o <<" language. Document: ">> \o text

get_simplify_prompt(text, country, code) ==
    IF country = "India"
    THEN IF code = <<"h", "i">>
         THEN SimplifyIndiaHindi(text)
         ELSE SimplifyIndiaEnglish(text)
    ELSE IF country = "Germany"
         THEN IF code = <<"d", "e">>
              THEN SimplifyGermanyGerman(text)
              ELSE SimplifyGermanyEnglish(text)
         ELSE SimplifyFallback(text, code)

get_qa_prompt(summary, question, code) ==
    <<"\n You are an AI assistant answering questions about a financial document.\n Please answer the following question ONLY based on the provided summary of the document.\n If the answer is not present in the summary, state that you cannot find the answer there clearly in ">>
        \o Capitalize(code) \o <<".\n\n **Summary of the Document:**\n ">> \o summary
        \o <<"\n\n **Question:**\n ">> \o question
        \o <<"\n\n **Answer in ">> \o Capitalize(code) \o <<":**\n ">>

get_financial_classification_prompt(text) ==
    <<"\n Analyze the following document text.\n Determine if the primary content of this document is related to finance (e.g., banking, loans, investments, insurance, taxes, financial policies, legal agreements with financial implications, pay slips, balance sheets, invoices, financial news, etc.).\n Respond with '",
      "Y", "E", "S", "' if it is clearly a financial document, and '", "N", "O", "' if it is not.\n Provide ONLY '",
      "Y", "E", "S", "' or '", "N", "O",
      "' as your answer, with no additional text or explanation.\n\n Document Text:\n ">>
        \o text \o <<"\n ">>

PleaseProvideTheOutputIn == "Please provide the output in"

\* f"{prompt}\n\n**Please provide the output in {target_language_iso_code.capitalize()}.**"
WithDirective(prompt, code) ==
    prompt \o <<"\n\n**", PleaseProvideTheOutputIn, " ">> \o Capitalize(code) \o <<".**">>

\* mutant: the directive is appended to every prompt
FullPromptAlways(prompt, code) == WithDirective(prompt, code)

\* full_prompt of call_gemini_api
FullPrompt(prompt, code) ==
    IF /\ ~Contains(<<PleaseProvideTheOutputIn>>, prompt)
       /\ ~Contains(<<"Y", "E", "S">>, prompt)
       /\ ~Contains(<<"N", "O">>, prompt)
    THEN WithDirective(prompt, code)
    ELSE prompt

\* ------------------------------------------------------------------- state

VARIABLES
    processed_output,     \* st.session_state.processed_output
    current_summary,      \* st.session_state.current_summary
    qa_answer,            \* st.session_state.qa_answer
    raw_extracted_text,   \* st.session_state.raw_extracted_text
    gemini_model,         \* what the cached get_gemini_model() returns
    gcs_client,           \* what the cached get_gcs_client() returns
    pc,                   \* position of the script run of main()
    uploaded_file,        \* the file widget's value in this script run
    pasted_text,          \* the text area's value in this script run
    user_question,        \* the Q&A box's value in this script run
    selected_action,      \* the action selected in this script run
    document_text,        \* local of main(): the extracted text
    is_financial,         \* local of main(): the classifier's verdict
    gw,                   \* the call of call_gemini_api in progress
    calls,                \* external calls of the current operation, in order
    ui,                   \* messages shown by the current operation, in order
    run_status,           \* history: how the most recent run ended
    had_results,          \* history: the button found the summary of an earlier Ready run
    run_input,            \* history: what the current run's extraction was given
    selected_country,     \* the country selected in the sidebar
    selected_language,    \* st.session_state.selected_language, the language widget's value
    selected_language_iso_code,  \* st.session_state.selected_language_iso_code
    storage,              \* what the current operation did to the bucket
    tts_client,           \* what the cached get_tts_client() holds
    speak,                \* the call of synthesize_text_to_audio in progress
    bucket,               \* the objects of the bucket: <<blob name, session that wrote it>>
    extracting            \* per session: its image extraction in progress

session == <<processed_output, current_summary, qa_answer, raw_extracted_text>>

clients == <<gemini_model, gcs_client>>

inputs == <<uploaded_file, pasted_text, user_question, selected_action>>

locals == <<document_text, is_financial>>

history == <<run_status, had_results, run_input>>

sidebar == <<selected_country, selected_language, selected_language_iso_code>>

tts == <<tts_client, speak>>

staging == <<bucket, extracting>>

vars == <<session, clients, pc, inputs, locals, gw, calls, ui, history, sidebar, staging, storage, tts>>

\* ------------------------------------------------------- call_gemini_api

Ret(v) == [t |-> "ret", v |-> v]

Exc(e) == [t |-> "exc", v |-> <<e>>]

NoResult == [t |-> "none", v |-> <<>>]

NoCall ==
    [purpose |-> "none", prompt |-> Empty, language |-> Empty, full_prompt |-> Empty,
     outcomes |-> <<>>, result |-> NoResult]

\* call_gemini_api(prompt, target_language_iso_code), entered for purpose p
NewCall(p, prompt, code) ==
    [purpose |-> p, prompt |-> prompt, language |-> code, full_prompt |-> Empty,
     outcomes |-> <<>>, result |-> NoResult]

\* mutant: retry on any exception
RetryOnAnyException(e) == TRUE

\* retry=retry_if_exception_type(RETRY_EXCEPTIONS)
RetryIf(e) == e \in RETRY_EXCEPTIONS

\* mutant: three retries after the first attempt
StopAfterThreeRetries(n) == n > MaxAttempts

\* mutant: one attempt more than the budget
StopAfterOneMore(n) == n >= MaxAttempts + 1

\* stop=stop_after_attempt(3)
StopAfterAttempt(n) == n >= MaxAttempts

\* the st.error of the except clause that catches e
FailureMessage(e) ==
    IF e \in GoogleAPICallErrors THEN "ai_processing_failed" ELSE "unexpected_ai_error"

\* One attempt of call_gemini_api under @retry: the body runs once; a return
\* ends the call, an exception is retried or re-raised by tenacity.
GeminiAttempt ==
    /\ pc = "gw"
    /\ \/ /\ gemini_model = "None"
          /\ gw' = [gw EXCEPT !.outcomes = Append(@, Ret(ModelNotAvailableMsg)),
                              !.result = Ret(ModelNotAvailableMsg)]
          /\ ui' = Append(ui, "model_not_initialized")
          /\ pc' = "gw_done"
          /\ UNCHANGED calls
       \/ /\ gemini_model # "None"
          /\ \E r \in ResponsesTo(gw.purpose) :
                gw' = [gw EXCEPT !.full_prompt = FullPrompt(gw.prompt, gw.language),
                                 !.outcomes = Append(@, Ret(r)), !.result = Ret(r)]
          /\ calls' = Append(calls, "generate_content")
          /\ pc' = "gw_done"
          /\ UNCHANGED ui
       \/ /\ gemini_model # "None"
          /\ \E e \in Failures :
                /\ ui' = Append(ui, FailureMessage(e))
                /\ IF RetryIf(e) /\ ~StopAfterAttempt(Len(gw.outcomes) + 1)
                   THEN /\ gw' = [gw EXCEPT !.full_prompt = FullPrompt(gw.prompt, gw.language),
                                            !.outcomes = Append(@, Exc(e))]
                        /\ pc' = "gw"
                   ELSE /\ gw' = [gw EXCEPT !.full_prompt = FullPrompt(gw.prompt, gw.language),
                                            !.outcomes = Append(@, Exc(e)),
                                            !.result = Exc(e)]
                        /\ pc' = "gw_done"
          /\ calls' = Append(calls, "generate_content")
    /\ UNCHANGED <<session, clients, inputs, locals, history>>
    /\ UNCHANGED <<sidebar, staging, storage, tts>>

\* ------------------------------------------- Section 1: Select Location

\* handle_country_change(), called while the arguments of the country
\* selectbox are evaluated: the first language of the country stored by the
\* previous script run
handle_country_change == COUNTRY_LANGUAGES(selected_country)[1]

AvailableLanguages(country) ==
    {COUNTRY_LANGUAGES(country)[i] : i \in 1..Len(COUNTRY_LANGUAGES(country))}

\* Section 1 of a script run in which the country widget holds country: the
\* language is reset, the widgets are read and the code is looked up in
\* TTS_LANGUAGE_MAP.  What the language widget returns for a stored value
\* that is none of its options is left open.
LocationSection(country) ==
    /\ selected_country' = country
    /\ selected_language' \in
          IF handle_country_change \in AvailableLanguages(country)
          THEN {handle_country_change}
          ELSE AvailableLanguages(country)
    /\ selected_language_iso_code' = TTS_LANGUAGE_MAP(selected_language')

\* a script run started by a change of the country widget; a stored language
\* that is no option of the language widget may also end the run by raising
SelectLocation ==
    /\ pc = "idle"
    /\ \E country \in COUNTRIES :
          \/ /\ LocationSection(country)
             /\ pc' = "qa"
          \/ /\ handle_country_change \notin AvailableLanguages(country)
             /\ selected_country' = country
             /\ UNCHANGED <<selected_language, selected_language_iso_code>>
             /\ pc' = "raised"
    /\ UNCHANGED <<session, clients, inputs, locals, gw, calls, ui, history, staging,
                   storage, tts>>

\* -------------------------------------------- get_text_from_input_source

NoStorage == [staged |-> {}, delete_issued |-> {}, left |-> {}]

Extraction(text, made, shown, stored) ==
    [text |-> text, calls |-> made, ui |-> shown, storage |-> stored]

\* the index of the last "." of s, 0 when it has none
RECURSIVE LastDot(_)
LastDot(s) ==
    IF s = <<>> THEN 0
    ELSE IF s[Len(s)] = "." THEN Len(s)
    ELSE LastDot(SubSeq(s, 1, Len(s) - 1))

\* uploaded_file.name.split(".")[-1].lower()
FileExtension(name) == Lower(SubSeq(name, LastDot(name) + 1, Len(name)))

\* the files the uploader lets through
UploaderFiles == {name \in FileNames : FileExtension(name) \in UploaderTypes}

\* extract_text_from_pdf: the pages' text, or "" when the parse raises
ExtractTextFromPdf ==
    {Extraction(x, <<"PdfReader">>, <<>>, NoStorage) : x \in DocTexts}
        \cup {Extraction(Empty, <<"PdfReader">>, <<"pdf_error">>, NoStorage)}

\* get_vision_client: the client construction always raises (the attribute
\* ImageAnnotatorClient is looked up on the function itself), so it returns None
get_vision_client == "None"

\* extract_text_from_image_gcs: "" without a vision client; else the text OCR
\* detected, or "" when it detected none or the call raised
ExtractTextFromImageGcs ==
    IF get_vision_client = "None"
    THEN {Extraction(Empty, <<>>, <<"vision_init_failed">>, NoStorage)}
    ELSE {Extraction(x, <<"document_text_detection">>, <<>>, NoStorage) : x \in DocTexts}
            \cup {Extraction(Empty, <<"document_text_detection">>, <<"ocr_error">>, NoStorage)}

GCS_BUCKET_NAME == "finai-mitra-docs-bucket"

StorageUrl == "https://storage.googleapis.com/"

\* blob_name = os.path.join("uploads", uploaded_file.name)
BlobName(name) == <<"u", "p", "l", "o", "a", "d", "s", "/">> \o name

\* the URL quoting of blob.public_url: "/" and unreserved characters are
\* kept, every other character is percent-encoded
RECURSIVE Quote(_)
Quote(s) ==
    IF s = <<>> THEN <<>>
    ELSE (IF Head(s) = " " THEN <<"%", "2", "0">> ELSE <<Head(s)>>) \o Quote(Tail(s))

\* blob.public_url, the reference upload_to_gcs returns
PublicUrl(blob_name) == <<StorageUrl, GCS_BUCKET_NAME, "/">> \o Quote(blob_name)

\* the index of the first "/" of s, 0 when it has none
RECURSIVE FirstSlash(_)
FirstSlash(s) ==
    IF s = <<>> THEN 0
    ELSE IF Head(s) = "/" THEN 1
    ELSE LET rest == FirstSlash(Tail(s)) IN IF rest = 0 THEN 0 ELSE rest + 1

\* delete_from_gcs up to blob.delete(): the blob name read back from the
\* reference, <<>> when the reference cannot be parsed
ParsedBlobName(blob_path) ==
    IF blob_path # <<>> /\ Head(blob_path) = StorageUrl
    THEN LET rest == Tail(blob_path)
             slash == FirstSlash(rest)
         IN  IF slash = 0 THEN <<>> ELSE SubSeq(rest, slash + 1, Len(rest))
    ELSE <<>>

\* delete_from_gcs(blob_path) with the objects in stored: the calls made and
\* the objects removed.  blob.delete() removes the object of the parsed name,
\* or raises (no such object, or a storage failure), which is logged only.
DeleteFromGcs(blob_path, stored) ==
    LET blob_name == ParsedBlobName(blob_path)
    IN  IF gcs_client = "None" \/ blob_name = <<>>
        THEN {[calls |-> <<>>, issued |-> {}, removed |-> {}]}
        ELSE {[calls |-> <<"blob_delete">>, issued |-> {blob_name},
               removed |-> {blob_name} \cap stored],
              [calls |-> <<"blob_delete">>, issued |-> {blob_name}, removed |-> {}]}

\* the image branch: upload_to_gcs, then extract_text_from_image_gcs and
\* delete_from_gcs when the upload returned a reference
ExtractTextFromImage(name) ==
    IF gcs_client = "None"
    THEN {Extraction(Empty, <<>>, <<"gcs_init_failed", "image_upload_failed">>, NoStorage)}
    ELSE {Extraction(Empty, <<"upload_from_file">>, <<"upload_failed", "image_upload_failed">>,
                     NoStorage)}
            \cup {Extraction(o.text, <<"upload_from_file">> \o o.calls \o d.calls, o.ui,
                             [staged |-> {BlobName(name)}, delete_issued |-> d.issued,
                              left |-> {BlobName(name)} \ d.removed]) :
                     o \in ExtractTextFromImageGcs,
                     d \in DeleteFromGcs(PublicUrl(BlobName(name)), {BlobName(name)})}

\* mutant: a file of another type is handed to the PDF parser
GetTextFromInputSourceTryPdf(file, pasted) ==
    IF file # NoFile
    THEN IF FileExtension(file) \in ImageTypes
         THEN ExtractTextFromImage(file)
         ELSE ExtractTextFromPdf
    ELSE IF Truthy(pasted)
         THEN {Extraction(pasted, <<>>, <<>>, NoStorage)}
         ELSE {Extraction(Empty, <<>>, <<>>, NoStorage)}

\* mutant: the pasted text is used when the file yields no text
GetTextFromInputSourcePastedFallback(file, pasted) ==
    LET from_file ==
            IF FileExtension(file) \notin SUPPORTED_FILE_TYPES
            THEN {Extraction(Empty, <<>>, <<"unsupported_file_type">>, NoStorage)}
            ELSE IF FileExtension(file) = <<"p", "d", "f">>
                 THEN ExtractTextFromPdf
                 ELSE ExtractTextFromImage(file)
    IN  IF file # NoFile
        THEN {IF Truthy(x.text) THEN x ELSE [x EXCEPT !.text = pasted] : x \in from_file}
        ELSE {Extraction(pasted, <<>>, <<>>, NoStorage)}

GetTextFromInputSource(file, pasted) ==
    IF file # NoFile
    THEN IF FileExtension(file) \notin SUPPORTED_FILE_TYPES
         THEN {Extraction(Empty, <<>>, <<"unsupported_file_type">>, NoStorage)}
         ELSE IF FileExtension(file) = <<"p", "d", "f">>
              THEN ExtractTextFromPdf
              ELSE IF FileExtension(file) \in ImageTypes
                   THEN ExtractTextFromImage(file)
                   ELSE {Extraction(Empty, <<>>, <<"unhandled_file_type">>, NoStorage)}
    ELSE IF Truthy(pasted)
         THEN {Extraction(pasted, <<>>, <<>>, NoStorage)}
         ELSE {Extraction(Empty, <<>>, <<>>, NoStorage)}

\* ------------------------------------- image extraction of several sessions
\* The sessions of one process share the storage client, the bucket and the
\* blob name uploads/<file name>; each runs the image branch of
\* get_text_from_input_source in its own script thread.

Sessions == {"s1", "s2"}

ImageFiles == {name \in UploaderFiles : FileExtension(name) \in ImageTypes}

NoExtraction == [pc |-> "none", file |-> NoFile, gcs_uri |-> <<>>, read |-> "none"]

NotExtracting == [s \in Sessions |-> NoExtraction]

\* the session that wrote the object blob_name, "none" when there is no such object
WriterOf(blob_name) ==
    IF \E o \in bucket : o[1] = blob_name
    THEN (CHOOSE o \in bucket : o[1] = blob_name)[2]
    ELSE "none"

\* upload_to_gcs in session s: blob.upload_from_file writes the object of
\* the name uploads/<file name>, replacing the one there is, or raises
StageUpload(s) ==
    /\ extracting[s].pc = "stage"
    /\ gcs_client # "None"
    /\ LET blob_name == BlobName(extracting[s].file)
       IN  \/ /\ bucket' = {o \in bucket : o[1] # blob_name} \cup {<<blob_name, s>>}
              /\ extracting' = [extracting EXCEPT ![s].gcs_uri = PublicUrl(blob_name),
                                                  ![s].pc = "ocr"]
           \/ /\ extracting' = [extracting EXCEPT ![s].pc = "done"]
              /\ UNCHANGED bucket
    /\ UNCHANGED <<session, clients, pc, inputs, locals, gw, calls, ui, history, sidebar,
                   storage, tts>>

\* extract_text_from_image_gcs in session s: without a vision client nothing
\* is read; with one, the service reads the object the reference names
OcrImage(s) ==
    /\ extracting[s].pc = "ocr"
    /\ extracting' =
          [extracting EXCEPT ![s].pc = "delete",
                             ![s].read = IF get_vision_client = "None" THEN "none"
                                         ELSE WriterOf(BlobName(extracting[s].file))]
    /\ UNCHANGED <<session, clients, pc, inputs, locals, gw, calls, ui, history, sidebar,
                   storage, tts, bucket>>

\* delete_from_gcs in session s
DeleteStaged(s) ==
    /\ extracting[s].pc = "delete"
    /\ \E d \in DeleteFromGcs(extracting[s].gcs_uri, {o[1] : o \in bucket}) :
          bucket' = {o \in bucket : o[1] \notin d.removed}
    /\ extracting' = [extracting EXCEPT ![s].pc = "done"]
    /\ UNCHANGED <<session, clients, pc, inputs, locals, gw, calls, ui, history, sidebar,
                   storage, tts>>

\* the next run of session s, with another image
NextImage(s) ==
    /\ extracting[s].pc = "done"
    /\ \E f \in ImageFiles :
          extracting' = [extracting EXCEPT ![s] = [NoExtraction EXCEPT !.pc = "stage", !.file = f]]
    /\ UNCHANGED <<session, clients, pc, inputs, locals, gw, calls, ui, history, sidebar,
                   storage, tts, bucket>>

\* ------------------------------------------------- synthesize_text_to_audio

NoSpeak == [text |-> Empty, language_code |-> Empty, voice |-> "none", result |-> NoResult]

\* the tags of TTS_LANGUAGE_MAP the playback selectbox offers
TtsLanguageCodes ==
    {TTS_LANGUAGE_MAP(language) : language \in {"English", "German", "Hindi", "Tamil"}}

\* response.audio_content
AudioContent == <<"mp3">>

\* how building the client or a synthesize_speech request can fail
TtsFailures == {"DefaultCredentialsError", "PermissionDenied", "InvalidArgument"}

\* The Read Output Aloud button of render_output_section, up to the call of
\* synthesize_text_to_audio and its test of the text.
ReadOutputAloud ==
    /\ pc = "idle"
    /\ Truthy(processed_output)
    /\ \E code \in TtsLanguageCodes :
          speak' = [text |-> processed_output, language_code |-> code, voice |-> "none",
                    result |-> NoResult]
    /\ calls' = <<"synthesize_text_to_audio">>
    /\ ui' = <<>>
    /\ pc' = "tts_client"
    /\ LocationSection(selected_country)
    /\ UNCHANGED <<session, clients, inputs, locals, gw, history, staging, storage, tts_client>>

\* client = get_tts_client(): the cached client, or TextToSpeechClient(),
\* whose exception nothing catches
GetTtsClient ==
    /\ pc = "tts_client"
    /\ \/ /\ tts_client = "TextToSpeechClient"
          /\ pc' = "tts_voice"
          /\ UNCHANGED <<tts_client, speak, calls>>
       \/ /\ tts_client = "unset"
          /\ tts_client' = "TextToSpeechClient"
          /\ calls' = Append(calls, "TextToSpeechClient")
          /\ pc' = "tts_voice"
          /\ UNCHANGED speak
       \/ /\ tts_client = "unset"
          /\ \E e \in TtsFailures : speak' = [speak EXCEPT !.result = Exc(e)]
          /\ calls' = Append(calls, "TextToSpeechClient")
          /\ pc' = "raised"
          /\ UNCHANGED tts_client
    /\ UNCHANGED <<session, clients, inputs, locals, gw, ui, history, sidebar, staging, storage>>

\* the check of the Neural2-A voice: a one-character request; the default
\* voice when it raises
CheckVoice ==
    /\ pc = "tts_voice"
    /\ \/ speak' = [speak EXCEPT !.voice = "Neural2-A"]
       \/ speak' = [speak EXCEPT !.voice = "default"]
    /\ calls' = Append(calls, "synthesize_speech")
    /\ pc' = "tts_synth"
    /\ UNCHANGED <<session, clients, inputs, locals, gw, ui, history, sidebar, staging, storage,
                   tts_client>>

\* the synthesis request: the audio, or None when it raises
Synthesize ==
    /\ pc = "tts_synth"
    /\ \/ /\ speak' = [speak EXCEPT !.result = Ret(AudioContent)]
          /\ UNCHANGED ui
       \/ /\ speak' = [speak EXCEPT !.result = Ret(Empty)]
          /\ ui' = ui \o <<"synthesize_failed", "synthesize_info">>
    /\ calls' = Append(calls, "synthesize_speech")
    /\ pc' = "tts_done"
    /\ UNCHANGED <<session, clients, inputs, locals, gw, history, sidebar, staging, storage, tts_client>>

\* if audio_bytes: st.audio ... else: st.error; the script then goes on
SpeakReturn ==
    /\ pc = "tts_done"
    /\ ui' = ui \o (IF Truthy(speak.result.v) THEN <<"audio", "audio_ready">>
                                               ELSE <<"audio_failed">>)
    /\ pc' = "qa"
    /\ UNCHANGED <<session, clients, inputs, locals, gw, calls, history, sidebar, staging, storage, tts>>

\* an exception no handler caught ends the script run
ScriptAborted ==
    /\ pc = "raised"
    /\ pc' = "idle"
    /\ speak' = NoSpeak
    /\ calls' = <<>>
    /\ ui' = <<>>
    /\ UNCHANGED <<session, clients, inputs, locals, gw, history, sidebar, staging, storage, tts_client>>

\* ------------------------------------------------------------------ main()

\* mutant: the clear forgets the summary
ClearKeepsSummary ==
    /\ qa_answer' = Empty
    /\ processed_output' = Empty
    /\ current_summary' = current_summary
    /\ raw_extracted_text' = Empty

\* mutant: nothing is cleared
ClearNothing ==
    /\ qa_answer' = qa_answer
    /\ processed_output' = processed_output
    /\ current_summary' = current_summary
    /\ raw_extracted_text' = raw_extracted_text

\* "Clear previous outputs to show new results clearly"
ClearPreviousOutputs ==
    /\ qa_answer' = Empty
    /\ processed_output' = Empty
    /\ current_summary' = Empty
    /\ raw_extracted_text' = Empty

\* mutant: the input check applies to the other action
NoInputCheckInverted(action, file, pasted) ==
    action = "Financial Planning" /\ (file = NoFile /\ ~Truthy(pasted))

\* selected_action != "Financial Planning" and (not uploaded_file and not pasted_text)
NoInputProvided(action, file, pasted) ==
    action # "Financial Planning" /\ (file = NoFile /\ ~Truthy(pasted))

\* which of the two inputs a run was given
RunInput(file, pasted) ==
    IF file # NoFile
    THEN IF Truthy(pasted) THEN "file_and_text" ELSE "file"
    ELSE IF Truthy(pasted) THEN "text" ELSE "none"

\* The Process Document button: the clear and the input check.
ProcessDocument ==
    /\ pc = "idle"
    /\ \E f \in {NoFile} \cup UploaderFiles, t \in DocTexts, q \in Questions, a \in ActionNames :
          /\ uploaded_file' = f
          /\ pasted_text' = t
          /\ user_question' = q
          /\ selected_action' = a
          /\ run_input' = RunInput(f, t)
          /\ ClearPreviousOutputs
          /\ IF NoInputProvided(a, f, t)
             THEN /\ ui' = <<"no_input">>
                  /\ run_status' = "no_input"
                  /\ pc' = "returned"
             ELSE /\ ui' = <<>>
                  /\ run_status' = "running"
                  /\ pc' = "extract"
    /\ had_results' = Truthy(current_summary)
    /\ calls' = <<>>
    /\ storage' = NoStorage
    /\ UNCHANGED <<clients, locals, gw>>
    /\ LocationSection(selected_country)
    /\ UNCHANGED <<staging, tts>>

\* mutant: the result of the extraction is not tested
AnyText(text) == TRUE

\* if document_text:
HasText(text) == Truthy(text)

\* Step 1: the extraction, and the branch on its result.
Extract ==
    /\ pc = "extract"
    /\ \E x \in GetTextFromInputSource(uploaded_file, pasted_text) :
          /\ document_text' = x.text
          /\ calls' = <<"get_text_from_input_source">> \o x.calls
          /\ storage' = x.storage
          /\ IF HasText(x.text)
             THEN /\ raw_extracted_text' = x.text
                  /\ ui' = ui \o x.ui
                  /\ pc' = "classify"
                  /\ UNCHANGED run_status
             ELSE /\ raw_extracted_text' = raw_extracted_text
                  /\ ui' = ui \o x.ui \o <<"no_text">>
                  /\ run_status' = "no_text"
                  /\ pc' = "run_end"
    /\ uploaded_file' = NoFile
    /\ pasted_text' = Empty
    /\ UNCHANGED <<processed_output, current_summary, qa_answer, clients,
                   user_question, selected_action, is_financial, gw, had_results, run_input>>
    /\ UNCHANGED <<sidebar, staging, tts>>

\* mutant: the text is not stripped
EmptyText(text) == ~Truthy(text)

\* if not document_text.strip():
BlankText(text) == ~Truthy(Strip(text))

\* text_snippet = document_text[:5000], and the prompt over it
ClassificationPrompt(text) ==
    get_financial_classification_prompt(Prefix(text, SnippetLen))

\* Step 2: is_document_financial up to its gateway call.
IsDocumentFinancial ==
    /\ pc = "classify"
    /\ IF BlankText(document_text)
       THEN /\ is_financial' = FALSE
            /\ calls' = Append(calls, "is_document_financial")
            /\ pc' = "gate"
            /\ UNCHANGED gw
       ELSE /\ gw' = NewCall("classify", ClassificationPrompt(document_text),
                              selected_language_iso_code)
            /\ calls' = calls \o <<"is_document_financial", "classify">>
            /\ pc' = "gw"
            /\ UNCHANGED is_financial
    /\ UNCHANGED <<session, clients, inputs, document_text, ui, history>>
    /\ UNCHANGED <<sidebar, staging, storage, tts>>

\* mutant: the answer is searched as it came, without upper()
ParseVerdictCaseSensitive(response) ==
    LET response_clean == Strip(response)
    IN  IF Contains(<<"Y", "E", "S">>, response_clean) THEN TRUE
        ELSE IF Contains(<<"N", "O">>, response_clean) THEN FALSE
        ELSE FALSE

\* the verdict read from the model's answer
ParseVerdict(response) ==
    LET response_clean == Upper(Strip(response))
    IN  IF Contains(<<"Y", "E", "S">>, response_clean) THEN TRUE
        ELSE IF Contains(<<"N", "O">>, response_clean) THEN FALSE
        ELSE FALSE

\* mutant: a failed classification lets the document pass
VerdictOnErrorAllow == TRUE

\* except Exception: ... return False
VerdictOnError == FALSE

\* is_document_financial after its gateway call: the verdict, or False when
\* the call raised
ClassifyReturn ==
    /\ pc = "gw_done"
    /\ gw.purpose = "classify"
    /\ IF gw.result.t = "ret"
       THEN /\ is_financial' = ParseVerdict(gw.result.v)
            /\ UNCHANGED ui
       ELSE /\ is_financial' = VerdictOnError
            /\ ui' = Append(ui, "classification_failed")
    /\ pc' = "gate"
    /\ UNCHANGED <<session, clients, inputs, document_text, gw, calls, history>>
    /\ UNCHANGED <<sidebar, staging, storage, tts>>

GenerationPurpose(action) == IF action = "Summarize" THEN "summarize" ELSE "simplify"

\* prompt_func(document_text, selected_country, selected_language_iso_code)
MainPrompt(action) ==
    IF action = "Summarize"
    THEN get_summarize_prompt(document_text, selected_country, selected_language_iso_code)
    ELSE get_simplify_prompt(document_text, selected_country, selected_language_iso_code)

\* get_qa_prompt(current_summary, user_question, selected_language_iso_code)
QAPrompt ==
    get_qa_prompt(current_summary, user_question, selected_language_iso_code)

\* mutant: the rejection branch does not return
GateWithoutReturn ==
    /\ pc = "gate"
    /\ IF ~is_financial
       THEN /\ ui' = Append(ui, "not_financial")
            /\ processed_output' = NotFinancialMsg
            /\ run_status' = "rejected"
       ELSE UNCHANGED <<processed_output, ui, run_status>>
    /\ gw' = NewCall(GenerationPurpose(selected_action), MainPrompt(selected_action),
                              selected_language_iso_code)
    /\ calls' = Append(calls, GenerationPurpose(selected_action))
    /\ pc' = "gw"
    /\ UNCHANGED <<current_summary, qa_answer, raw_extracted_text, clients, inputs, locals,
                   had_results, run_input>>
    /\ UNCHANGED <<sidebar, staging, storage, tts>>

\* if not is_financial: ... return; else Steps 3 and 4 up to the gateway call
Gate ==
    /\ pc = "gate"
    /\ IF ~is_financial
       THEN /\ ui' = Append(ui, "not_financial")
            /\ processed_output' = NotFinancialMsg
            /\ run_status' = "rejected"
            /\ pc' = "returned"
            /\ UNCHANGED <<gw, calls>>
       ELSE /\ gw' = NewCall(GenerationPurpose(selected_action), MainPrompt(selected_action),
                              selected_language_iso_code)
            /\ calls' = Append(calls, GenerationPurpose(selected_action))
            /\ pc' = "gw"
            /\ UNCHANGED <<processed_output, ui, run_status>>
    /\ UNCHANGED <<current_summary, qa_answer, raw_extracted_text, clients, inputs, locals,
                   had_results, run_input>>
    /\ UNCHANGED <<sidebar, staging, storage, tts>>

\* if not processed_output or "error" in processed_output.lower():
InvalidResponse(response) ==
    ~Truthy(response) \/ Contains(<<"e", "r", "r", "o", "r">>, Lower(response))

\* Step 4 after the gateway call: validation and storing, or the except clause
GenerateReturn ==
    /\ pc = "gw_done"
    /\ gw.purpose \in {"summarize", "simplify"}
    /\ IF gw.result.t = "ret"
       THEN IF InvalidResponse(gw.result.v)
            THEN /\ ui' = ui \o <<"invalid_response", "success">>
                 /\ processed_output' = InvalidResponseMsg
                 /\ run_status' = "invalid"
                 /\ UNCHANGED current_summary
            ELSE /\ ui' = Append(ui, "success")
                 /\ processed_output' = gw.result.v
                 /\ current_summary' = gw.result.v
                 /\ run_status' = "ready"
       ELSE /\ ui' = Append(ui, "processing_error")
            /\ run_status' = "error"
            /\ UNCHANGED <<processed_output, current_summary>>
    /\ pc' = "run_end"
    /\ UNCHANGED <<qa_answer, raw_extracted_text, clients, inputs, locals, gw, calls,
                   had_results, run_input>>
    /\ UNCHANGED <<sidebar, staging, storage, tts>>

\* a script run started by another widget than the button (a question typed)
Rerun ==
    /\ pc = "idle"
    /\ \E q \in Questions : user_question' = q
    /\ pc' = "qa"
    /\ UNCHANGED <<session, clients, uploaded_file, pasted_text, selected_action,
                   locals, gw, calls, ui, history>>
    /\ LocationSection(selected_country)
    /\ UNCHANGED <<staging, storage, tts>>

\* mutant: the test reads the output, not the summary
NoOutput == ~Truthy(processed_output)

\* if not st.session_state.current_summary:
NoSummary == ~Truthy(current_summary)

\* Section 5: render_qa_section, then main's handling up to the gateway call
QASection ==
    /\ pc \in {"run_end", "qa"}
    /\ IF ~Truthy(user_question)
       THEN /\ pc' = "qa_end"
            /\ calls' = <<>>
            /\ ui' = <<>>
            /\ gw' = NoCall
            /\ UNCHANGED qa_answer
       ELSE IF NoSummary
            THEN /\ ui' = <<"qa_warning_process_first", "qa_error_process_first">>
                 /\ qa_answer' = PleaseProcessMsg
                 /\ calls' = <<>>
                 /\ gw' = NoCall
                 /\ pc' = "qa_end"
            ELSE /\ ui' = <<"qa_answer_generated">>
                 /\ qa_answer' = SimulatedResponse
                 /\ calls' = <<"qa">>
                 /\ gw' = NewCall("qa", QAPrompt, selected_language_iso_code)
                 /\ pc' = "gw"
    /\ storage' = NoStorage
    /\ UNCHANGED <<processed_output, current_summary, raw_extracted_text, clients,
                   inputs, locals, history>>
    /\ UNCHANGED <<sidebar, staging, tts>>

\* mutant: the answer also replaces the summary
QAStoreAsSummary(result) ==
    /\ qa_answer' = IF result.t = "ret" THEN result.v ELSE CouldNotAnswerMsg(result.v[1])
    /\ current_summary' = qa_answer'
    /\ UNCHANGED <<processed_output, raw_extracted_text>>

\* mutant: the answer also replaces the output shown
QAStoreAsOutput(result) ==
    /\ qa_answer' = IF result.t = "ret" THEN result.v ELSE CouldNotAnswerMsg(result.v[1])
    /\ processed_output' = qa_answer'
    /\ UNCHANGED <<current_summary, raw_extracted_text>>

\* st.session_state.qa_answer = answer, or the except clause
QAStore(result) ==
    /\ qa_answer' = IF result.t = "ret" THEN result.v ELSE CouldNotAnswerMsg(result.v[1])
    /\ UNCHANGED <<processed_output, current_summary, raw_extracted_text>>

QAReturn ==
    /\ pc = "gw_done"
    /\ gw.purpose = "qa"
    /\ QAStore(gw.result)
    /\ pc' = "qa_end"
    /\ UNCHANGED <<clients, inputs, locals, gw, calls, ui, history>>
    /\ UNCHANGED <<sidebar, staging, storage, tts>>

\* the script run ends (main returned early, or ran to its last line)
ScriptEnd ==
    /\ pc \in {"returned", "qa_end"}
    /\ pc' = "idle"
    /\ uploaded_file' = NoFile
    /\ pasted_text' = Empty
    /\ user_question' = Empty
    /\ selected_action' = "Summarize"
    /\ document_text' = Empty
    /\ is_financial' = FALSE
    /\ gw' = NoCall
    /\ calls' = <<>>
    /\ ui' = <<>>
    /\ had_results' = FALSE
    /\ run_input' = "none"
    /\ storage' = NoStorage
    /\ UNCHANGED <<session, clients, run_status>>
    /\ speak' = NoSpeak
    /\ UNCHANGED <<sidebar, staging, tts_client>>

\* -------------------------------- render_product_recommendation_section
\* The section main() renders instead of Sections 2 to 5 when the selected
\* action is "Financial Planning" (an action ACTIONS does not list).

\* generate_product_recommendation_prompt for one user profile: the country,
\* the stored output and the language code interpolated into the wording
generate_product_recommendation_prompt(country, lang_code, output) ==
    <<"Please don't provide response as an email. And share the products like credit card only if available in ",
      country,
      ". You are a financial advisor for Deutsche Bank. Based on the following user profile, suggest a customized financial plan and recommend Deutsche Bank products that match the user's needs with context ">>
        \o output
        \o <<" - Age: 30 - Gender: Other - Annual Income: $50,000 USD - Occupation: Student - Country: ",
             country,
             " Please structure your response in the following format: ... Respond in ">>
        \o lang_code \o <<".">>

\* the Financial Recommendation button, up to its gateway call
FinancialRecommendation ==
    /\ pc = "idle"
    /\ selected_action' = "Financial Planning"
    /\ LocationSection(selected_country)
    /\ gw' = NewCall("recommend",
                     generate_product_recommendation_prompt(selected_country',
                         selected_language_iso_code', processed_output),
                     selected_language_iso_code')
    /\ calls' = <<"recommend">>
    /\ ui' = <<>>
    /\ pc' = "gw"
    /\ UNCHANGED <<session, clients, uploaded_file, pasted_text, user_question, locals,
                   history, staging, storage, tts>>

\* the button after its gateway call: the response is stored as it came; an
\* exception of the call is not caught
RecommendReturn ==
    /\ pc = "gw_done"
    /\ gw.purpose = "recommend"
    /\ IF gw.result.t = "ret"
       THEN /\ processed_output' = gw.result.v
            /\ current_summary' = gw.result.v
            /\ ui' = ui \o <<"recommendations_generated", "response">>
            /\ run_status' = "recommended"
            /\ pc' = "returned"
       ELSE /\ pc' = "raised"
            /\ UNCHANGED <<processed_output, current_summary, ui, run_status>>
    /\ UNCHANGED <<qa_answer, raw_extracted_text, clients, inputs, locals, gw, calls,
                   had_results, run_input, sidebar, staging, storage, tts>>

\* ----------------------------------------------------------- specification

Init ==
    /\ processed_output = Empty
    /\ current_summary = Empty
    /\ qa_answer = Empty
    /\ raw_extracted_text = Empty
    /\ gemini_model \in {"GenerativeModel", "None"}
    /\ gcs_client \in {"Client", "None"}
    /\ pc = "idle"
    /\ uploaded_file = NoFile
    /\ pasted_text = Empty
    /\ user_question = Empty
    /\ selected_action = "Summarize"
    /\ document_text = Empty
    /\ is_financial = FALSE
    /\ gw = NoCall
    /\ calls = <<>>
    /\ ui = <<>>
    /\ run_status = "none"
    /\ had_results = FALSE
    /\ run_input = "none"
    /\ selected_country = "India"
    /\ selected_language = "Hindi"
    /\ selected_language_iso_code = TTS_LANGUAGE_MAP("Hindi")
    /\ storage = NoStorage
    /\ tts_client = "unset"
    /\ speak = NoSpeak
    /\ bucket = {}
    /\ extracting = NotExtracting

Next ==
    \/ ProcessDocument
    \/ Extract
    \/ IsDocumentFinancial
    \/ GeminiAttempt
    \/ ClassifyReturn
    \/ Gate
    \/ GenerateReturn
    \/ Rerun
    \/ QASection
    \/ QAReturn
    \/ ScriptEnd

Spec == Init /\ [][Next]_vars

\* The script thread runs a started run to its end, and every external call
\* of the run returns or fails.
RunFairness ==
    /\ WF_vars(Extract)
    /\ WF_vars(IsDocumentFinancial)
    /\ WF_vars(GeminiAttempt)
    /\ WF_vars(ClassifyReturn)
    /\ WF_vars(Gate)
    /\ WF_vars(GenerateReturn)

SpecLive == Init /\ [][Next]_vars /\ RunFairness

\* is_document_financial called on its own, with any text
InitClassify ==
    /\ processed_output = Empty
    /\ current_summary = Empty
    /\ qa_answer = Empty
    /\ raw_extracted_text = Empty
    /\ gemini_model \in {"GenerativeModel", "None"}
    /\ gcs_client = "Client"
    /\ pc = "classify"
    /\ uploaded_file = NoFile
    /\ pasted_text = Empty
    /\ user_question = Empty
    /\ selected_action = "Summarize"
    /\ document_text \in DocTexts \cup {LongText}
    /\ is_financial = FALSE
    /\ gw = NoCall
    /\ calls = <<>>
    /\ ui = <<>>
    /\ run_status = "running"
    /\ had_results = FALSE
    /\ run_input = "none"
    /\ selected_country = "India"
    /\ selected_language = "Hindi"
    /\ selected_language_iso_code \in LanguageCodes
    /\ storage = NoStorage
    /\ tts_client = "unset"
    /\ speak = NoSpeak
    /\ bucket = {}
    /\ extracting = NotExtracting

NextClassify ==
    \/ IsDocumentFinancial
    \/ GeminiAttempt
    \/ ClassifyReturn

SpecClassify == InitClassify /\ [][NextClassify]_vars

\* the prompt builders and call_gemini_api called on their own, with any
\* document text, country and language code
InitPrompt ==
    /\ processed_output = Empty
    /\ current_summary = <<"O", "k">>
    /\ qa_answer = Empty
    /\ raw_extracted_text = Empty
    /\ gemini_model = "GenerativeModel"
    /\ gcs_client = "Client"
    /\ pc = "build"
    /\ uploaded_file = NoFile
    /\ pasted_text = Empty
    /\ user_question = <<"q">>
    /\ selected_action = "Summarize"
    /\ document_text \in PromptTexts
    /\ is_financial = TRUE
    /\ gw = NoCall
    /\ calls = <<>>
    /\ ui = <<>>
    /\ run_status = "running"
    /\ had_results = FALSE
    /\ run_input = "none"
    /\ selected_country \in COUNTRIES
    /\ selected_language = "Hindi"
    /\ selected_language_iso_code \in LanguageCodes
    /\ storage = NoStorage
    /\ tts_client = "unset"
    /\ speak = NoSpeak
    /\ bucket = {}
    /\ extracting = NotExtracting

\* a call of call_gemini_api on the prompt one of the builders returned
BuildPrompt ==
    /\ pc = "build"
    /\ \/ \E a \in ActionNames :
             /\ gw' = NewCall(GenerationPurpose(a), MainPrompt(a), selected_language_iso_code)
             /\ calls' = <<GenerationPurpose(a)>>
       \/ /\ gw' = NewCall("qa", QAPrompt, selected_language_iso_code)
          /\ calls' = <<"qa">>
    /\ pc' = "gw"
    /\ UNCHANGED <<session, clients, inputs, locals, ui, history, sidebar, staging, storage, tts>>

NextPrompt ==
    \/ BuildPrompt
    \/ GeminiAttempt

SpecPrompt == InitPrompt /\ [][NextPrompt]_vars

\* the Read Output Aloud button pressed with an output of an earlier run on
\* the page and the question box empty
InitSpeak ==
    /\ processed_output \in {NotFinancialMsg, InvalidResponseMsg, <<"O", "k">>, <<"Y", "E", "S">>}
    /\ current_summary = IF processed_output \in {NotFinancialMsg, InvalidResponseMsg}
                         THEN Empty ELSE processed_output
    /\ qa_answer = Empty
    /\ raw_extracted_text \in DocTexts
    /\ Truthy(raw_extracted_text)
    /\ gemini_model = "GenerativeModel"
    /\ gcs_client = "Client"
    /\ pc = "idle"
    /\ uploaded_file = NoFile
    /\ pasted_text = Empty
    /\ user_question = Empty
    /\ selected_action = "Summarize"
    /\ document_text = Empty
    /\ is_financial = FALSE
    /\ gw = NoCall
    /\ calls = <<>>
    /\ ui = <<>>
    /\ run_status = IF processed_output = NotFinancialMsg THEN "rejected"
                    ELSE IF processed_output = InvalidResponseMsg THEN "invalid" ELSE "ready"
    /\ had_results = FALSE
    /\ run_input = "none"
    /\ selected_country = "India"
    /\ selected_language = "Hindi"
    /\ selected_language_iso_code = TTS_LANGUAGE_MAP("Hindi")
    /\ storage = NoStorage
    /\ tts_client = "unset"
    /\ speak = NoSpeak
    /\ bucket = {}
    /\ extracting = NotExtracting

NextSpeak ==
    \/ ReadOutputAloud
    \/ GetTtsClient
    \/ CheckVoice
    \/ Synthesize
    \/ SpeakReturn
    \/ ScriptAborted
    \/ QASection
    \/ ScriptEnd

SpecSpeak == InitSpeak /\ [][NextSpeak]_vars

\* a new session of a process whose storage client was built
InitPlanning ==
    /\ processed_output = Empty
    /\ current_summary = Empty
    /\ qa_answer = Empty
    /\ raw_extracted_text = Empty
    /\ gemini_model \in {"GenerativeModel", "None"}
    /\ gcs_client = "Client"
    /\ pc = "idle"
    /\ uploaded_file = NoFile
    /\ pasted_text = Empty
    /\ user_question = Empty
    /\ selected_action = "Summarize"
    /\ document_text = Empty
    /\ is_financial = FALSE
    /\ gw = NoCall
    /\ calls = <<>>
    /\ ui = <<>>
    /\ run_status = "none"
    /\ had_results = FALSE
    /\ run_input = "none"
    /\ selected_country = "India"
    /\ selected_language = "Hindi"
    /\ selected_language_iso_code = TTS_LANGUAGE_MAP("Hindi")
    /\ storage = NoStorage
    /\ tts_client = "unset"
    /\ speak = NoSpeak
    /\ bucket = {}
    /\ extracting = NotExtracting

\* get_text_from_input_source called by a run with any file, of a type the
\* uploader lets through or not, and any pasted text
InitExtract ==
    /\ processed_output = Empty
    /\ current_summary = Empty
    /\ qa_answer = Empty
    /\ raw_extracted_text = Empty
    /\ gemini_model \in {"GenerativeModel", "None"}
    /\ gcs_client \in {"Client", "None"}
    /\ pc = "extract"
    /\ uploaded_file \in {NoFile} \cup FileNames
    /\ pasted_text \in DocTexts
    /\ user_question \in Questions
    /\ selected_action \in ActionNames
    /\ ~NoInputProvided(selected_action, uploaded_file, pasted_text)
    /\ document_text = Empty
    /\ is_financial = FALSE
    /\ gw = NoCall
    /\ calls = <<>>
    /\ ui = <<>>
    /\ run_status = "running"
    /\ had_results = FALSE
    /\ run_input = RunInput(uploaded_file, pasted_text)
    /\ selected_country = "India"
    /\ selected_language = "Hindi"
    /\ selected_language_iso_code = TTS_LANGUAGE_MAP("Hindi")
    /\ storage = NoStorage
    /\ tts_client = "unset"
    /\ speak = NoSpeak
    /\ bucket = {}
    /\ extracting = NotExtracting

NextExtract ==
    \/ Extract
    \/ IsDocumentFinancial
    \/ GeminiAttempt
    \/ ClassifyReturn
    \/ Gate
    \/ GenerateReturn
    \/ QASection
    \/ QAReturn

SpecExtract == InitExtract /\ [][NextExtract]_vars

\* a session after its first script run, the country widget at its first
\* option, with the location widgets in use
InitSelect ==
    /\ processed_output = Empty
    /\ current_summary = Empty
    /\ qa_answer = Empty
    /\ raw_extracted_text = Empty
    /\ gemini_model = "GenerativeModel"
    /\ gcs_client = "Client"
    /\ pc = "idle"
    /\ uploaded_file = NoFile
    /\ pasted_text = Empty
    /\ user_question = Empty
    /\ selected_action = "Summarize"
    /\ document_text = Empty
    /\ is_financial = FALSE
    /\ gw = NoCall
    /\ calls = <<>>
    /\ ui = <<>>
    /\ run_status = "none"
    /\ had_results = FALSE
    /\ run_input = "none"
    /\ selected_country = "United States"
    /\ selected_language = "English"
    /\ selected_language_iso_code = TTS_LANGUAGE_MAP("English")
    /\ storage = NoStorage
    /\ tts_client = "unset"
    /\ speak = NoSpeak
    /\ bucket = {}
    /\ extracting = NotExtracting

NextSelect ==
    \/ SelectLocation
    \/ ProcessDocument
    \/ Extract
    \/ IsDocumentFinancial
    \/ GeminiAttempt
    \/ ClassifyReturn
    \/ Gate
    \/ GenerateReturn
    \/ QASection
    \/ QAReturn
    \/ ScriptEnd
    \/ ScriptAborted

SpecSelect == InitSelect /\ [][NextSelect]_vars

\* two sessions, each with an image to extract
InitStaging ==
    /\ processed_output = Empty
    /\ current_summary = Empty
    /\ qa_answer = Empty
    /\ raw_extracted_text = Empty
    /\ gemini_model = "GenerativeModel"
    /\ gcs_client = "Client"
    /\ pc = "extract"
    /\ uploaded_file = NoFile
    /\ pasted_text = Empty
    /\ user_question = Empty
    /\ selected_action = "Summarize"
    /\ document_text = Empty
    /\ is_financial = FALSE
    /\ gw = NoCall
    /\ calls = <<>>
    /\ ui = <<>>
    /\ run_status = "running"
    /\ had_results = FALSE
    /\ run_input = "file"
    /\ selected_country = "India"
    /\ selected_language = "Hindi"
    /\ selected_language_iso_code = TTS_LANGUAGE_MAP("Hindi")
    /\ storage = NoStorage
    /\ tts_client = "unset"
    /\ speak = NoSpeak
    /\ bucket = {}
    /\ extracting \in [Sessions -> {[NoExtraction EXCEPT !.pc = "stage", !.file = f] :
                                        f \in ImageFiles}]

NextStaging ==
    \E s \in Sessions :
        \/ StageUpload(s)
        \/ OcrImage(s)
        \/ DeleteStaged(s)
        \/ NextImage(s)

SpecStaging == InitStaging /\ [][NextStaging]_vars

\* the application with the Financial Planning section offered next to
\* Summarize and Simplify
NextPlanning ==
    \/ ProcessDocument
    \/ Extract
    \/ IsDocumentFinancial
    \/ GeminiAttempt
    \/ ClassifyReturn
    \/ Gate
    \/ GenerateReturn
    \/ Rerun
    \/ QASection
    \/ QAReturn
    \/ ScriptEnd
    \/ FinancialRecommendation
    \/ RecommendReturn
    \/ ScriptAborted

SpecPlanning == InitPlanning /\ [][NextPlanning]_vars

\* ------------------------------------------------------------------ claims

GenerationCalled == Has("summarize", calls) \/ Has("simplify", calls)

ModelAttempts == Count("generate_content", calls)

SessionEmpty ==
    /\ processed_output = Empty
    /\ current_summary = Empty
    /\ qa_answer = Empty
    /\ raw_extracted_text = Empty

IsTransient(o) == o.t = "exc" /\ o.v[1] \in RETRY_EXCEPTIONS

IsPermanent(o) == o.t = "exc" /\ o.v[1] \notin RETRY_EXCEPTIONS

AllWhitespace(text) == \A i \in 1..Len(text) : text[i] \in Whitespace

\* C1: financial gate. A run in which the classifier returned false ends with
\* the fixed non-financial message stored, the summary empty and no
\* summarize/simplify gateway call; a summarize/simplify gateway call is only
\* ever made in a run whose classifier returned true.
C1_FinancialGate ==
    /\ (run_status = "rejected" /\ pc = "returned")
          => /\ ~is_financial
             /\ processed_output = NotFinancialMsg
             /\ current_summary = Empty
             /\ ~GenerationCalled
    /\ (pc \in {"gate", "returned", "gw", "gw_done", "run_end"} /\ ~is_financial)
          => /\ ~GenerationCalled
             /\ gw.purpose \notin {"summarize", "simplify"}
    /\ (pc = "returned" /\ Has("is_document_financial", calls)) => run_status = "rejected"
    /\ GenerationCalled => (is_financial /\ Has("is_document_financial", calls))

C1_Witness ==
    /\ pc = "returned"
    /\ run_status = "rejected"
    /\ processed_output = NotFinancialMsg
    /\ ModelAttempts > 0

\* C2: the Process Document button clears the four session fields before any
\* extraction, classification or generation call, so whatever a run stores at
\* its end was produced by that run.
C2_RunClearsFirst ==
    /\ pc = "extract" => (SessionEmpty /\ calls = <<>>)
    /\ (pc \in {"classify", "gate"} \/ (pc \in {"gw", "gw_done"} /\ gw.purpose # "qa"))
          => /\ processed_output = Empty
             /\ current_summary = Empty
             /\ qa_answer = Empty
             /\ raw_extracted_text = document_text
    /\ pc = "returned"
          => /\ current_summary = Empty
             /\ qa_answer = Empty
             /\ raw_extracted_text = document_text
             /\ processed_output = IF run_status = "rejected" THEN NotFinancialMsg ELSE Empty
    /\ pc = "run_end"
          => /\ qa_answer = Empty
             /\ raw_extracted_text = document_text
             /\ current_summary # Empty
                   => (run_status = "ready" /\ gw.result = Ret(current_summary))
             /\ processed_output = IF run_status = "ready" THEN current_summary
                                   ELSE IF run_status = "invalid" THEN InvalidResponseMsg
                                   ELSE Empty

C2_Witness ==
    /\ had_results
    /\ pc = "run_end"
    /\ run_status = "error"
    /\ processed_output = Empty
    /\ current_summary = Empty

\* C3: a run requested with neither a file nor pasted text ends at once with
\* the no-input error, and no extraction, storage, OCR, classification or
\* generation call is made; extraction is only entered with an input.
C3_NoInputNoCalls ==
    /\ pc = "extract" => (uploaded_file # NoFile \/ Truthy(pasted_text))
    /\ run_status = "no_input" =>
          (pc \in {"returned", "idle", "qa", "qa_end"} \/ (pc \in {"gw", "gw_done"} /\ gw.purpose = "qa"))
    /\ (run_status = "no_input" /\ pc = "returned")
          => /\ ui = <<"no_input">>
             /\ calls = <<>>
             /\ gw = NoCall
             /\ uploaded_file = NoFile
             /\ ~Truthy(pasted_text)
    /\ Has("no_input", ui) => (run_status = "no_input" /\ pc = "returned")

C3_Witness ==
    /\ pc = "returned"
    /\ run_status = "no_input"
    /\ ui = <<"no_input">>

\* C4 as claimed: a run request rejected for lack of input leaves the session
\* state (output, summary, answer, extracted text) as it was before.
C4_NoInputLeavesSession ==
    [][(pc = "idle" /\ pc' = "returned") => UNCHANGED session]_vars

\* C4 as amended: a run request rejected for lack of input makes no external
\* call, and its one effect on the session state is the upfront clear: after
\* it the four fields are empty, also when an earlier run had left results.
C4_NoInputClearsOnly ==
    (run_status = "no_input" /\ pc = "returned") => (SessionEmpty /\ calls = <<>>)

C4_Witness ==
    /\ had_results
    /\ run_status = "no_input"
    /\ pc = "returned"
    /\ SessionEmpty

\* C5: retry budget. A gateway call whose attempts all fail transiently makes
\* exactly 3 attempts and raises the third attempt's failure unchanged; a
\* call returns the first success and makes no attempt after it.
C5_RetryBudget ==
    /\ Len(gw.outcomes) <= MaxAttempts
    /\ (gw.result.t = "exc" /\ \A i \in 1..Len(gw.outcomes) : IsTransient(gw.outcomes[i]))
          => /\ Len(gw.outcomes) = 3
             /\ gw.result = gw.outcomes[3]
    /\ (pc = "gw" /\ gw.result.t = "none") =>
          \A i \in 1..Len(gw.outcomes) : IsTransient(gw.outcomes[i])
    /\ gw.result.t = "ret"
          => /\ gw.result = gw.outcomes[Len(gw.outcomes)]
             /\ \A i \in 1..(Len(gw.outcomes) - 1) : IsTransient(gw.outcomes[i])
    /\ (gw.purpose \in {"classify", "qa"} /\ gemini_model # "None")
          => ModelAttempts = Len(gw.outcomes)
    /\ gw.result.t # "none" => pc # "gw"

C5_Witness ==
    /\ pc = "gw_done"
    /\ gw.result.t = "exc"
    /\ Len(gw.outcomes) = 3
    /\ \A i \in 1..3 : IsTransient(gw.outcomes[i])
    /\ gw.outcomes[1] # gw.outcomes[3]
    /\ gw.outcomes[2] # gw.outcomes[3]
    /\ ModelAttempts = 3

\* C6: a non-transient failure of the model call is never retried: it is the
\* last attempt of its call and is raised at once, on attempt 1 and also after
\* transient failures.
C6_PermanentNotRetried ==
    \A i \in 1..Len(gw.outcomes) :
        IsPermanent(gw.outcomes[i])
            => /\ i = Len(gw.outcomes)
               /\ gw.result = gw.outcomes[i]
               /\ pc # "gw"

C6_Witness ==
    /\ pc = "gw_done"
    /\ Len(gw.outcomes) = 2
    /\ IsTransient(gw.outcomes[1])
    /\ IsPermanent(gw.outcomes[2])
    /\ gw.result = gw.outcomes[2]

\* C7: Q&A only from Ready. A question handled when the most recent run did
\* not end with a valid model output stored gets the process-a-document-first
\* answer and no gateway or model call; a Q&A gateway call is only made when
\* the most recent run ended Ready.
C7_QAOnlyFromReady ==
    /\ (pc = "qa_end" /\ Truthy(user_question) /\ run_status # "ready")
          => /\ qa_answer = PleaseProcessMsg
             /\ Has("qa_error_process_first", ui)
             /\ calls = <<>>
             /\ gw = NoCall
    /\ (gw.purpose = "qa" \/ Has("qa", calls)) => run_status = "ready"

C7_Witness ==
    /\ pc = "qa_end"
    /\ Truthy(user_question)
    /\ run_status = "rejected"
    /\ qa_answer = PleaseProcessMsg

QAInProgress ==
    pc \in {"run_end", "qa"} \/ (pc \in {"gw", "gw_done"} /\ gw.purpose = "qa")

\* C8: a question handled in Ready changes only the stored answer: output,
\* summary and extracted text are unchanged whether the model call succeeds or
\* fails, and the session stays in Ready with the same summary.
C8_QAChangesOnlyAnswer ==
    [][(QAInProgress /\ run_status = "ready")
          => /\ processed_output' = processed_output
             /\ current_summary' = current_summary
             /\ raw_extracted_text' = raw_extracted_text
             /\ run_status' = "ready"
             /\ Truthy(current_summary')]_vars

C8_Witness ==
    /\ pc = "qa_end"
    /\ run_status = "ready"
    /\ gw.purpose = "qa"
    /\ gw.result.t = "exc"
    /\ qa_answer = CouldNotAnswerMsg(gw.result.v[1])
    /\ Truthy(current_summary)
    /\ processed_output = current_summary

\* C9: when extraction yields empty text the run ends with the no-text warning
\* and nothing stored, and neither the classifier nor the gateway is called in
\* it; the classifier is entered only with non-empty extracted text.
C9_NoTextStops ==
    /\ (Has("get_text_from_input_source", calls) /\ ~Truthy(document_text))
          => /\ pc = "run_end"
             /\ run_status = "no_text"
             /\ Has("no_text", ui)
             /\ SessionEmpty
             /\ ~Has("is_document_financial", calls)
             /\ ~Has("classify", calls)
             /\ ~GenerationCalled
             /\ ModelAttempts = 0
    /\ Has("is_document_financial", calls) => Truthy(document_text)
    /\ pc = "classify" => (Truthy(document_text) /\ raw_extracted_text = document_text)

C9_Witness ==
    /\ pc = "run_end"
    /\ run_status = "no_text"
    /\ Has("PdfReader", calls)
    /\ Has("no_text", ui)

\* C10: for every empty or whitespace-only text is_document_financial returns
\* false and makes no gateway call.
C10_BlankTextNotFinancial ==
    /\ (pc = "gate" /\ AllWhitespace(document_text))
          => /\ ~is_financial
             /\ ~Has("classify", calls)
             /\ ModelAttempts = 0
             /\ ui = <<>>
    /\ (Has("classify", calls) \/ gw.purpose = "classify") => ~AllWhitespace(document_text)

C10_Witness ==
    /\ pc = "gate"
    /\ Len(document_text) = 0
    /\ ~is_financial
    /\ calls = <<"is_document_financial">>

\* word (in lower case) occurs in s, whatever the case of the letters of s
ContainsIgnoringCase(word, s) ==
    \E i \in 0..(Len(s) - Len(word)) :
        \A j \in 1..Len(word) : LowerChar(s[i + j]) = word[j]

\* C11: classifier parsing. For non-blank text is_document_financial returns
\* true exactly when the model's answer contains "yes" in any case; an answer
\* with "no" only, or with neither, gives false.
C11_ClassifierParsing ==
    (pc = "gate" /\ gw.purpose = "classify" /\ gw.result.t = "ret")
        => (is_financial <=> ContainsIgnoringCase(<<"y", "e", "s">>, gw.result.v))

C11_Witness ==
    /\ pc = "gate"
    /\ gw.purpose = "classify"
    /\ gw.result = Ret(<<" ", "Y", "e", "s", "\n">>)
    /\ is_financial

ClassificationFailed ==
    /\ gw.purpose = "classify"
    /\ gw.result.t = "exc" \/ gw.result = Ret(ModelNotAvailableMsg)

\* C12: the classifier fails closed. When its gateway call fails (three
\* transient failures, a permanent failure, or no model client), the
\* classifier returns false and raises nothing: the run ends Rejected with the
\* fixed non-financial message and without a summarize/simplify call.
C12_ClassifierFailClosed ==
    /\ ClassificationFailed => pc \in {"gw_done", "gate", "returned"}
    /\ (pc = "gate" /\ ClassificationFailed) => ~is_financial
    /\ (pc = "returned" /\ ClassificationFailed)
          => /\ run_status = "rejected"
             /\ processed_output = NotFinancialMsg
             /\ current_summary = Empty
             /\ ~GenerationCalled
    /\ (pc = "run_end" /\ run_status = "error") => gw.purpose \in {"summarize", "simplify"}

C12_Witness ==
    /\ pc = "returned"
    /\ gw.purpose = "classify"
    /\ gw.result.t = "exc"
    /\ Len(gw.outcomes) = 3
    /\ IsTransient(gw.outcomes[3])
    /\ Has("classification_failed", ui)
    /\ processed_output = NotFinancialMsg

Sent == gw.outcomes # <<>> /\ gemini_model # "None"

\* C13 as claimed: the text sent to the model for a summarize, simplify or
\* Q&A prompt, whatever document text or summary it is built over, is the
\* prompt followed by the language directive; a classification prompt is sent
\* as it is.
C13_DirectiveOnEveryOtherPrompt ==
    /\ (Sent /\ gw.purpose \in {"summarize", "simplify", "qa"})
          => gw.full_prompt = WithDirective(gw.prompt, gw.language)
    /\ (Sent /\ gw.purpose = "classify") => gw.full_prompt = gw.prompt

\* C14: classification does not depend on the language hint. Whatever
\* language code is passed, the text sent for classification is the same: the
\* classification prompt over the first 5000 characters of the document,
\* without a language directive; and the verdict is read from the answer alone.
C14_ClassificationLanguageIndependent ==
    /\ (Sent /\ gw.purpose = "classify")
          => /\ \A code \in LanguageCodes :
                    FullPrompt(ClassificationPrompt(document_text), code) = gw.full_prompt
             /\ gw.full_prompt
                   = get_financial_classification_prompt(
                         SubSeq(document_text, 1,
                                IF Len(document_text) < 5000 THEN Len(document_text) ELSE 5000))
             /\ ~Has(PleaseProvideTheOutputIn, gw.full_prompt)
    /\ (pc = "gate" /\ gw.purpose = "classify")
          => is_financial
                = (gw.result.t = "ret" /\ ContainsIgnoringCase(<<"y", "e", "s">>, gw.result.v))

C14_Witness ==
    /\ pc = "gate"
    /\ gw.purpose = "classify"
    /\ Len(document_text) > 5000
    /\ gw.language = <<"h", "i", "-", "I", "N">>
    /\ Len(gw.full_prompt) = Len(get_financial_classification_prompt(Empty)) + 5000
    /\ is_financial

ExtractionReturned == Has("get_text_from_input_source", calls)

\* C15 as claimed: when get_text_from_input_source has returned, a delete was
\* issued for every object it staged, under the name it was staged with, and
\* none of the objects it staged is left in the bucket.
C15_StagedObjectsDeleted ==
    ExtractionReturned
        => /\ storage.staged \subseteq storage.delete_issued
           /\ storage.left = {}

\* C16 as claimed: an image extraction whose staging succeeded calls the OCR
\* service between the staging and the delete, in the order stage, OCR
\* call, delete, and returns the text OCR produced.
C16_StageOcrDelete ==
    (ExtractionReturned /\ storage.staged # {})
        => \E i, j, k \in 1..Len(calls) :
              /\ i < j /\ j < k
              /\ calls[i] = "upload_from_file"
              /\ calls[j] = "document_text_detection"
              /\ calls[k] = "blob_delete"

Built == pc = "gw" /\ gw.outcomes = <<>>

\* the four combinations of country and language code with wording of their own
HandTuned ==
    {<<"India", <<"h", "i">>>>, <<"India", <<"e", "n">>>>,
     <<"Germany", <<"d", "e">>>>, <<"Germany", <<"e", "n">>>>}

FallbackPrompt(purpose) ==
    IF purpose = "summarize"
    THEN SummarizeFallback(document_text, selected_language_iso_code)
    ELSE SimplifyFallback(document_text, selected_language_iso_code)

\* C17 as claimed: for summarize and for simplify, the builder returns a
\* hand-tuned template for exactly India+hi, India+en, Germany+de and
\* Germany+en, and the generic fallback template for every other combination
\* of country and language code.
C17_TemplateSelection ==
    (Built /\ gw.purpose \in {"summarize", "simplify"})
        => (<<selected_country, selected_language_iso_code>> \in HandTuned
               <=> gw.prompt # FallbackPrompt(gw.purpose))

HasWordCap(prompt) == Has(ToString(MAX_SUMMARY_WORDS), prompt)

\* the names a prompt can call the language of a code by
LanguageNames(code) ==
    CASE Prefix(code, 2) = <<"h", "i">> -> {"Hindi"}
      [] Prefix(code, 2) = <<"e", "n">> -> {"English", "Englisch"}
      [] Prefix(code, 2) = <<"d", "e">> -> {"German", "Deutsch"}
      [] Prefix(code, 2) = <<"t", "a">> -> {"Tamil"}
      [] OTHER -> {}

NamesLanguage(prompt, code) ==
    \/ \E name \in LanguageNames(code) : Has(name, prompt)
    \/ Contains(Capitalize(code), prompt)

\* C18 as claimed: every prompt the builder returns, for summarize and for
\* simplify and for every country and language code, holds an instruction
\* capping the output at 250 words and names the requested language.
C18_CapAndLanguage ==
    (Built /\ gw.purpose \in {"summarize", "simplify"})
        => /\ HasWordCap(gw.prompt)
           /\ NamesLanguage(gw.prompt, selected_language_iso_code)

\* the wording of a prompt that ends with the document text
Wording(prompt, text) == SubSeq(prompt, 1, Len(prompt) - Len(text))

\* C19: prompt round trip. For every document text T the summarize prompt for
\* Germany and code de ends with T verbatim and asks for German; with code en
\* instead it still ends with T verbatim, asks for English, and differs from
\* the former in the wording before T only, which does not depend on T.
C19_PromptRoundTrip ==
    (Built /\ gw.purpose = "summarize" /\ selected_country = "Germany"
           /\ selected_language_iso_code \in {<<"d", "e">>, <<"e", "n">>})
        => LET T == document_text
               de == get_summarize_prompt(T, "Germany", <<"d", "e">>)
               en == get_summarize_prompt(T, "Germany", <<"e", "n">>)
           IN  /\ gw.prompt = IF selected_language_iso_code = <<"d", "e">> THEN de ELSE en
               /\ EndsWith(gw.prompt, T)
               /\ Contains(T, gw.prompt)
               /\ Has("Deutsch", de) /\ ~Has("English", de)
               /\ Has("English", en) /\ ~Has("Deutsch", en)
               /\ EndsWith(en, T)
               /\ Wording(de, T) # Wording(en, T)
               /\ Wording(gw.prompt, T)
                     = get_summarize_prompt(Empty, "Germany", selected_language_iso_code)

C19_Witness ==
    /\ Built
    /\ gw.purpose = "summarize"
    /\ selected_country = "Germany"
    /\ selected_language_iso_code = <<"d", "e">>
    /\ document_text = <<"N", "O">>
    /\ Has("Deutsch", gw.prompt)
    /\ EndsWith(gw.prompt, <<"N", "O">>)

\* C20 as claimed: no failure of an external service, a failure to build its
\* client included, makes an operation end by raising: the operation returns
\* with one of its outcomes.
C20_NoExceptionCrosses ==
    pc # "raised"

\* a generation call (summarize, simplify or recommendation) has returned
\* and its caller has stored the result
GenerationStored ==
    /\ gw.purpose \in {"summarize", "simplify", "recommend"}
    /\ pc \in {"run_end", "returned"}
    /\ gw.result.t = "ret"

C22_SpeechFallback ==
    (pc = "tts_done" /\ speak.result = Ret(Empty)) => speak.voice = "default"

UnsupportedFile(file) == file # NoFile /\ FileExtension(file) \notin SUPPORTED_FILE_TYPES

\* C23: the extraction of an uploaded file whose extension is none of pdf, png,
\* jpg, jpeg yields empty text with the unsupported-type error, also when
\* pasted text came with the file; the run makes no storage upload, OCR call,
\* PDF parse, classification or generation call.
C23_UnsupportedType ==
    [][/\ (pc = "extract" /\ UnsupportedFile(uploaded_file))
            => /\ document_text' = Empty
               /\ ui' = <<"unsupported_file_type", "no_text">>
               /\ calls' = <<"get_text_from_input_source">>
               /\ storage' = NoStorage
               /\ run_status' = "no_text"
               /\ pc' = "run_end"
       /\ Has("unsupported_file_type", ui)
            => /\ ~Has("classify", calls') /\ ~Has("summarize", calls')
               /\ ~Has("simplify", calls') /\ ~Has("generate_content", calls')
               /\ ~Has("upload_from_file", calls') /\ ~Has("PdfReader", calls')
               /\ ~Has("document_text_detection", calls')]_vars

C23_Witness ==
    /\ pc = "run_end"
    /\ ui = <<"unsupported_file_type", "no_text">>
    /\ run_input = "file_and_text"
    /\ calls = <<"get_text_from_input_source">>
    /\ document_text = Empty

\* C30: input precedence.  With a file supplied the extracted text is what
\* the file alone yields, whatever was pasted; when the file yields no text
\* the pasted text is no fallback and the run ends as no-text-extracted.  With
\* no file supplied the pasted text is returned verbatim.
C30_InputPrecedence ==
    [][pc = "extract"
         => /\ uploaded_file # NoFile
                 => \E x \in GetTextFromInputSource(uploaded_file, Empty) :
                        /\ document_text' = x.text
                        /\ calls' = <<"get_text_from_input_source">> \o x.calls
                        /\ storage' = x.storage
            /\ (uploaded_file # NoFile /\ document_text' = Empty)
                 => /\ run_status' = "no_text"
                    /\ pc' = "run_end"
                    /\ raw_extracted_text' = Empty
            /\ uploaded_file = NoFile => document_text' = pasted_text]_vars

C30_Witness ==
    /\ pc = "run_end"
    /\ run_status = "no_text"
    /\ run_input = "file_and_text"
    /\ Has("PdfReader", calls)
    /\ document_text = Empty

\* C24 as claimed: while a session is between its stage step and the end of
\* its OCR call, the object it staged is in the bucket as that session wrote
\* it: no other session has overwritten or deleted it.
C24_StagedObjectIsolated ==
    \A s \in Sessions :
        extracting[s].pc = "ocr" => WriterOf(BlobName(extracting[s].file)) = s

\* the generation call of a run has just been issued
GenerationIssued == pc = "gw" /\ gw.purpose \in {"summarize", "simplify"} /\ gw.outcomes = <<>>

\* the hand-tuned template of the run's action for (country, language)
HandTunedFor(country, language) ==
    IF gw.purpose = "summarize"
    THEN IF country = "India" THEN SummarizeIndiaHindi(document_text)
                              ELSE SummarizeGermanyGerman(document_text)
    ELSE IF country = "India" THEN SimplifyIndiaHindi(document_text)
                              ELSE SimplifyGermanyGerman(document_text)

\* C25 as claimed: with India and Hindi selected, or Germany and German, the
\* prompt a run sends to generation is the hand-tuned template of that
\* combination over the extracted text.
C25_SelectedLanguageReachesTemplate ==
    (GenerationIssued /\ <<selected_country, selected_language>>
                            \in {<<"India", "Hindi">>, <<"Germany", "German">>})
        => gw.prompt = HandTunedFor(selected_country, selected_language)

\* C26: after any sequence of run, ask and recommendation actions, a non-empty
\* current_summary equals processed_output, and the text a Q&A prompt is
\* grounded on is the output shown to the user.
C26_SummaryIsOutput ==
    /\ Truthy(current_summary) => processed_output = current_summary
    /\ gw.purpose = "qa"
          => gw.prompt = get_qa_prompt(processed_output, user_question,
                                       selected_language_iso_code)

C26_Witness ==
    /\ pc = "gw_done"
    /\ gw.purpose = "qa"
    /\ run_status = "recommended"
    /\ Truthy(current_summary)
    /\ processed_output = current_summary
    /\ qa_answer # Empty

\* C27 as claimed: a gateway call whose first or second attempt fails
\* transiently and which then succeeds shows the user no error message; the
\* "AI processing failed" message is shown only by a call that ends in a
\* failure (retries exhausted, or a permanent failure), and once.
C27_TransientFailuresHidden ==
    /\ (pc = "gw_done" /\ gw.result.t = "ret")
          => /\ ~Has("ai_processing_failed", ui)
             /\ ~Has("unexpected_ai_error", ui)
    /\ Has("ai_processing_failed", ui)
          => /\ gw.result.t = "exc"
             /\ Count("ai_processing_failed", ui) = 1

\* C28 as claimed: a run shows the success message only when its generation
\* call returned a valid response that was stored as the output and as the
\* summary; a run that stored the invalid-response message, was rejected or
\* failed shows no success.
C28_SuccessOnlyWhenReady ==
    Has("success", ui)
        => /\ run_status = "ready"
           /\ gw.result.t = "ret"
           /\ ~InvalidResponse(gw.result.v)
           /\ processed_output = gw.result.v
           /\ current_summary = gw.result.v

\* the run of the current script run has not yet handed over to Section 5
InRun == pc \in {"extract", "classify", "gw", "gw_done", "gate", "run_end", "returned"}

\* how a run can end; "invalid" is the run whose response failed validation
RunOutcomes == {"no_input", "no_text", "rejected", "ready", "invalid", "error"}

\* the attempts of the model counted from the entry named mark of calls on
RECURSIVE AttemptsAfter(_, _)
AttemptsAfter(marks, s) ==
    IF s = <<>> THEN 0
    ELSE IF Head(s) \in marks THEN Count("generate_content", Tail(s))
    ELSE AttemptsAfter(marks, Tail(s))

\* C29: every run ends as no-input, no-text, Rejected, Ready or Error (the
\* invalid-response run being the soft error), provided each external call
\* returns or fails; within a run the model is attempted at most 3 times for
\* the classification, at most 3 times for the generation, at most 6 times in
\* total, and the generation gateway is invoked at most once.
C29_RunTerminatesBounded ==
    /\ [](InRun =>
            /\ Count("summarize", calls) + Count("simplify", calls) <= 1
            /\ AttemptsAfter({"summarize", "simplify"}, calls) <= MaxAttempts
            /\ ModelAttempts - AttemptsAfter({"summarize", "simplify"}, calls) <= MaxAttempts
            /\ ModelAttempts <= 2 * MaxAttempts)
    /\ [](pc = "idle" => run_status \in RunOutcomes \cup {"none"})
    /\ (run_status = "running") ~> (run_status \in RunOutcomes)

C29_Witness ==
    /\ pc = "run_end"
    /\ run_status = "error"
    /\ ModelAttempts = 2 * MaxAttempts
    /\ AttemptsAfter({"summarize", "simplify"}, calls) = MaxAttempts

====
